---- MODULE Spec2Model ----
(***************************************************************************)
(* A model of OpenAdapt's event persistence pipeline (openadapt/crud.py):  *)
(* the batched writer (_insert and its per-table buffers), the stop        *)
(* sequence trimmer (filter_stop_sequences), the screenshot diff chain     *)
(* (get_screenshots / save_screenshot_diff) and the query accessors, all   *)
(* working on the one module-level storage session db; and of the record   *)
(* button of the front end (openadapt/app/cards.py, main.py).              *)
(*                                                                         *)
(* Python's None is the string "None".  Python lists are sequences; a      *)
(* Python index i (0-based, negative counting from the end) is translated  *)
(* by PyValidIndex / PyIndex.                                              *)
(***************************************************************************)
EXTENDS Integers, Sequences, FiniteSets, TLC

VARIABLES
    action_events,   \* the list handed to filter_stop_sequences (mutated in place)
    fetched,         \* that list as it was fetched, before trimming
    STOP_SEQUENCES,  \* config.STOP_SEQUENCES
    trim,            \* where the trimmer stands and what it decided
    BATCH_SIZE,      \* the batch threshold of the writer
    SAVE_SCREENSHOT_DIFF,  \* config.SAVE_SCREENSHOT_DIFF
    buffer,          \* the module-level buffers, one list of rows per table
    table,           \* storage: the committed rows of each table, in insert order
    dirty,           \* the session db: attribute values set on loaded Screenshot
                     \* objects and not yet flushed to storage
    screenshots,     \* the list get_screenshots last built (its local variable)
    clock,           \* the next event timestamp the producer hands out
    offered,         \* history: per table, the timestamps of the rows buffered
    failed,          \* history: per table, whether a commit of its insert failed
    partial,         \* history: the diff fields a failed pass left computed in
                     \* memory, until a later pass over them completes
    last,            \* the last call made and how it ended
    recording_table, \* storage: the timestamps of the committed Recording rows
    returned,        \* the list the last accessor call returned
    PROC,            \* cards.PROC: <<>> for None, <<pid>> for the Popen object
    record_button,   \* the record icon: its name property and click listeners
    dialog,          \* the recording prompt: "none", "open" or "closed"
    result,          \* the prompt's label: <<>> until a name is typed, then <<name>>
    running,         \* the recorder subprocesses that are running
    sigints,         \* the subprocesses a SIGINT was sent to
    notifications,   \* the messages shown by ui.notify
    errors,          \* the exceptions the click handlers raised
    ui_log           \* history: the user interface events handled, in order

trimVars == <<action_events, fetched, STOP_SEQUENCES, trim>>

writerVars == <<BATCH_SIZE, SAVE_SCREENSHOT_DIFF, buffer, table, dirty, screenshots,
                clock, offered, failed, partial, last>>

queryVars == <<recording_table, returned>>

appVars == <<PROC, record_button, dialog, result, running, sigints, notifications,
             errors, ui_log>>

vars == <<action_events, fetched, STOP_SEQUENCES, trim, BATCH_SIZE,
          SAVE_SCREENSHOT_DIFF, buffer, table, dirty, screenshots, clock, offered,
          failed, partial, last, recording_table, returned, PROC, record_button,
          dialog, result, running, sigints, notifications, errors, ui_log>>

None == "None"

Range(s) == {s[i] : i \in DOMAIN s}

(***************************************************************************)
(* Bounds of the model.                                                    *)
(***************************************************************************)
MaxEvents == 4

MaxInserts == 4

MaxBatchSize == 3

MaxUiEvents == 6

(***************************************************************************)
(* Action events, as far as the trimmer reads them: the event's name and   *)
(* its canonical key character or canonical key name.  A key event carries *)
(* one of the two, a mouse event ("click") neither.                        *)
(***************************************************************************)
KeyChars == {"c"}

KeyNames == {"ctrl"}

Tokens == KeyChars \cup KeyNames

KeyEvent(n, c, k) == [name |-> n, canonical_key_char |-> c, canonical_key_name |-> k]

ActionEvents ==
    {KeyEvent(n, c, None) : n \in {"press", "release"}, c \in KeyChars}
        \cup {KeyEvent(n, None, k) : n \in {"press", "release"}, k \in KeyNames}
        \cup {KeyEvent("click", None, None)}

RECURSIVE SeqsUpTo(_, _)
SeqsUpTo(S, n) ==
    IF n = 0 THEN {<<>>}
    ELSE LET shorter == SeqsUpTo(S, n - 1)
         IN  shorter \cup {Append(s, x) : s \in {t \in shorter : Len(t) = n - 1}, x \in S}

\* The configured stop sequences the model draws from: one or two tokens each,
\* and none, one or two of them configured.
StopSequences == {<<t>> : t \in Tokens} \cup {<<s, t>> : s \in Tokens, t \in Tokens}

StopSequenceConfigs ==
    {<<>>} \cup {<<s>> : s \in StopSequences}
           \cup {<<s, t>> : s \in StopSequences, t \in StopSequences}

(***************************************************************************)
(* Python list indexing: seq[idx] with idx 0-based, a negative idx         *)
(* counting from the end, IndexError outside -len .. len-1.                *)
(***************************************************************************)
PyValidIndex(seq, idx) == -Len(seq) <= idx /\ idx < Len(seq)

PyIndex(seq, idx) == IF idx >= 0 THEN seq[idx + 1] ELSE seq[Len(seq) + idx + 1]

(***************************************************************************)
(* filter_stop_sequences                                                   *)
(***************************************************************************)
\* The Ctrl+C test: at least two events, the last one's character is "c" and
\* the one before's key name is "ctrl" (the events' names are not looked at).
CtrlC(evs) ==
    /\ Len(evs) >= 2
    /\ evs[Len(evs)].canonical_key_char = "c"
    /\ evs[Len(evs) - 1].canonical_key_name = "ctrl"

PopOne(evs) == SubSeq(evs, 1, Len(evs) - 1)

\* A Ctrl+C branch that pops once only.
PopCtrlCOnce(evs) == PopOne(evs)

\* The two pops of the Ctrl+C branch.
PopCtrlC(evs) == PopOne(PopOne(evs))

\* The inner loop over j (here 1-based, from the last event down to the first)
\* for one sequence: idx is stop_sequence_indices[i], num is num_to_remove.
\* The token seq[idx] is read for every event visited, so an idx below
\* -len(seq) raises IndexError, and an idx of -1 .. -len(seq) wraps around.
RECURSIVE ScanFrom(_, _, _, _, _)
ScanFrom(evs, seq, j, idx, num) ==
    IF j = 0 THEN [idx |-> idx, num |-> num, raised |-> FALSE]
    ELSE IF ~PyValidIndex(seq, idx) THEN [idx |-> idx, num |-> num, raised |-> TRUE]
    ELSE LET tok == PyIndex(seq, idx)
             e   == evs[j]
         IN  IF /\ (e.canonical_key_char = tok \/ e.canonical_key_name = tok)
                /\ e.name = "press"
             THEN ScanFrom(evs, seq, j - 1, idx - 1, num + 1)
             ELSE IF /\ e.name = "release"
                     /\ (\/ e.canonical_key_char \in Range(seq)
                         \/ e.canonical_key_name \in Range(seq))
             THEN ScanFrom(evs, seq, j - 1, idx, num + 1)
             ELSE [idx |-> idx, num |-> num, raised |-> FALSE]

\* A match test that is off by one token.
FullyMatchedEarly(idx) == idx <= 0

\* if stop_sequence_indices[i] == -1: the sequence was matched to its first token
FullyMatched(idx) == idx = -1

\* The outer loop over the configured sequences, from sequence i (1-based) on;
\* num_to_remove is carried from one sequence to the next.
RECURSIVE ScanSequences(_, _, _, _)
ScanSequences(evs, seqs, i, num) ==
    IF i > Len(seqs)
    THEN [sequence_to_remove |-> -1, num_to_remove |-> num, raised |-> FALSE]
    ELSE LET r == ScanFrom(evs, seqs[i], Len(evs), Len(seqs[i]) - 1, num)
         IN  IF r.raised
             THEN [sequence_to_remove |-> -1, num_to_remove |-> r.num, raised |-> TRUE]
             ELSE IF FullyMatched(r.idx)
             THEN [sequence_to_remove |-> i - 1, num_to_remove |-> r.num,
                   raised |-> FALSE]
             ELSE ScanSequences(evs, seqs, i + 1, r.num)

\* A removal loop that runs whether or not a sequence was found.
ShouldRemoveAlways(sequence_to_remove) == TRUE

\* Whether the removal loop applies: a sequence was found.
ShouldRemove(sequence_to_remove) == sequence_to_remove # -1

\* The removal loop: num_to_remove pops; a pop from the emptied list raises
\* IndexError after the list has been emptied.
RemoveSequence(evs, num_to_remove) ==
    IF num_to_remove <= Len(evs)
    THEN [events |-> SubSeq(evs, 1, Len(evs) - num_to_remove), raised |-> FALSE]
    ELSE [events |-> <<>>, raised |-> TRUE]

\* The whole function on the list evs under the configuration seqs: the list
\* as it is left, and how the call ended.
filter_stop_sequences(evs, seqs) ==
    IF CtrlC(evs)
    THEN [events |-> PopCtrlC(evs), pc |-> "returned", ctrl_c |-> TRUE,
          sequence_to_remove |-> -1, num_to_remove |-> 0]
    ELSE LET s == ScanSequences(evs, seqs, 1, 0)
         IN  IF s.raised
             THEN [events |-> evs, pc |-> "raised", ctrl_c |-> FALSE,
                   sequence_to_remove |-> -1, num_to_remove |-> s.num_to_remove]
             ELSE IF ShouldRemove(s.sequence_to_remove)
             THEN LET r == RemoveSequence(evs, s.num_to_remove)
                  IN  [events |-> r.events,
                       pc |-> IF r.raised THEN "raised" ELSE "returned",
                       ctrl_c |-> FALSE,
                       sequence_to_remove |-> s.sequence_to_remove,
                       num_to_remove |-> s.num_to_remove]
             ELSE [events |-> evs, pc |-> "returned", ctrl_c |-> FALSE,
                   sequence_to_remove |-> -1, num_to_remove |-> s.num_to_remove]

(***************************************************************************)
(* The schema: the five event tables, each with a buffer of its own, and   *)
(* the Recording rows, known by their timestamps.                          *)
(***************************************************************************)
Tables == {"ActionEvent", "Screenshot", "WindowEvent", "PerformanceStat", "MemoryStat"}

\* The recordings that exist from the start where no recording is inserted.
Recordings == {1}

\* The recording timestamps a caller may ask for, existing or not.
RecordingTimestamps == {1, 2}

Columns(tbl) ==
    CASE tbl = "Screenshot" ->
            {"recording_timestamp", "timestamp", "png_data", "png_diff_data",
             "png_diff_mask_data"}
      [] tbl = "ActionEvent" ->
            {"recording_timestamp", "timestamp", "name", "canonical_key_char",
             "canonical_key_name"}
      [] tbl = "WindowEvent" -> {"recording_timestamp", "timestamp", "title"}
      [] tbl = "PerformanceStat" ->
            {"recording_timestamp", "event_type", "start_time", "end_time"}
      [] tbl = "MemoryStat" -> {"recording_timestamp", "memory_usage_bytes", "timestamp"}

\* What a producer passes as event_data: the table's own fields, with or
\* without a field the table does not declare.
EventData(tbl) ==
    LET own == CASE tbl = "Screenshot" -> [png_data |-> "png"]
                 [] OTHER -> [name |-> "press"]
    IN  {own, own @@ [children |-> "x"]}

\* {**event_data, "timestamp": ..., "recording_timestamp": ...}
WithTimestamps(event_data, recording_timestamp, event_timestamp) ==
    [timestamp |-> event_timestamp, recording_timestamp |-> recording_timestamp]
        @@ event_data

(***************************************************************************)
(* _insert                                                                 *)
(***************************************************************************)
\* db_obj: every column of the table, None where event_data has no value.
DbObj(event_data, tbl) ==
    [c \in Columns(tbl) |-> IF c \in DOMAIN event_data THEN event_data[c] ELSE None]

\* What is left of event_data after the columns' keys were deleted from it.
Leftover(event_data, tbl) == DOMAIN event_data \ Columns(tbl)

\* An _insert that drops what the table does not declare.
SchemaViolationIgnored(event_data, tbl) == FALSE

\* assert not event_data
SchemaViolation(event_data, tbl) == Leftover(event_data, tbl) # {}

\* A threshold test that is off by one.
ThresholdReachedLate(buf) == Len(buf) > BATCH_SIZE

\* len(buffer) >= BATCH_SIZE
ThresholdReached(buf) == Len(buf) >= BATCH_SIZE

\* A commit branch that clears the buffer before it commits.
CommitClearingFirst(buf, commit_ok) ==
    IF commit_ok
    THEN [outcome |-> "committed", buffer |-> <<>>, to_insert |-> buf]
    ELSE [outcome |-> "CommitFailure", buffer |-> <<>>, to_insert |-> <<>>]

\* db.execute(sa.insert(table), to_insert); db.commit(); buffer.clear():
\* when the execute or the commit raises, the clear is not reached.
Commit(buf, commit_ok) ==
    IF commit_ok
    THEN [outcome |-> "committed", buffer |-> <<>>, to_insert |-> buf]
    ELSE [outcome |-> "CommitFailure", buffer |-> buf, to_insert |-> <<>>]

\* _insert(event_data, table, buffer) with a buffer, as every caller in the
\* module passes one; commit_ok is whether storage accepts the commit.
_insert(event_data, tbl, buf, commit_ok) ==
    IF SchemaViolation(event_data, tbl)
    THEN [outcome |-> "AssertionError", buffer |-> buf, to_insert |-> <<>>]
    ELSE LET appended == Append(buf, DbObj(event_data, tbl))
         IN  IF ThresholdReached(appended)
             THEN Commit(appended, commit_ok)
             ELSE [outcome |-> "buffered", buffer |-> appended, to_insert |-> <<>>]

(***************************************************************************)
(* The session db.  A commit flushes the attribute values set on loaded    *)
(* objects (dirty) to their rows, whoever issues the commit.               *)
(***************************************************************************)
DiffAttrs(o) ==
    [timestamp |-> o.timestamp, png_diff_data |-> o.png_diff_data,
     png_diff_mask_data |-> o.png_diff_mask_data]

IsDirty(ts) == \E d \in dirty : d.timestamp = ts

DirtyOf(ts) == CHOOSE d \in dirty : d.timestamp = ts

\* A Screenshot row with the session's unflushed attribute values, if any:
\* what the session shows for the row, and what a flush writes.
Loaded(row) ==
    IF IsDirty(row.timestamp)
    THEN [row EXCEPT !.png_diff_data = DirtyOf(row.timestamp).png_diff_data,
                     !.png_diff_mask_data = DirtyOf(row.timestamp).png_diff_mask_data]
    ELSE row

Flushed(rows) == [i \in DOMAIN rows |-> Loaded(rows[i])]

\* A commit that puts the new rows in front of the table's rows.
CommittedInFront(tbl, to_insert) ==
    [t \in Tables |->
        LET rows == IF t = "Screenshot" THEN Flushed(table[t]) ELSE table[t]
        IN  IF t = tbl THEN to_insert \o rows ELSE rows]

\* Storage after a commit that adds the rows to_insert to table tbl.
Committed(tbl, to_insert) ==
    [t \in Tables |->
        LET rows == IF t = "Screenshot" THEN Flushed(table[t]) ELSE table[t]
        IN  IF t = tbl THEN rows \o to_insert ELSE rows]

(***************************************************************************)
(* _get: the rows of a recording, ordered by timestamp.                    *)
(***************************************************************************)
RECURSIVE OrderByTimestamp(_)
OrderByTimestamp(rows) ==
    IF rows = <<>> THEN <<>>
    ELSE LET m == CHOOSE i \in DOMAIN rows :
                      \A k \in DOMAIN rows :
                          \/ rows[i].timestamp < rows[k].timestamp
                          \/ (rows[i].timestamp = rows[k].timestamp /\ i <= k)
             rest == [k \in 1..(Len(rows) - 1) |-> IF k < m THEN rows[k] ELSE rows[k + 1]]
         IN  <<rows[m]>> \o OrderByTimestamp(rest)

_get(tbl, recording_timestamp) ==
    LET OfRecording(row) == row.recording_timestamp = recording_timestamp
        rows == IF tbl = "Screenshot" THEN Flushed(table[tbl]) ELSE table[tbl]
    IN  OrderByTimestamp(SelectSeq(rows, OfRecording))

(***************************************************************************)
(* get_screenshots / save_screenshot_diff.  A loaded Screenshot is its row *)
(* plus prev: <<>> for None, <<ts>> for the screenshot with timestamp ts.  *)
(***************************************************************************)
\* A linking that leaves the first screenshot without prev.
LinkPrevFirstUnset(shots) ==
    [i \in DOMAIN shots |->
        shots[i] @@ [prev |-> IF i = 1 THEN <<>> ELSE <<shots[i - 1].timestamp>>]]

\* cur.prev = prev for each adjacent pair, screenshots[0].prev = screenshots[0]
LinkPrev(shots) ==
    [i \in DOMAIN shots |->
        shots[i] @@ [prev |-> IF i = 1 THEN <<shots[1].timestamp>>
                              ELSE <<shots[i - 1].timestamp>>]]

\* Python's truth value of a diff field: None (and empty bytes) are false.
Truthy(v) == v # None

\* A pass that also skips the screenshot whose prev is itself.
SkippedOrSelf(s) == s.prev = <<>> \/ s.prev = <<s.timestamp>>

\* if not screenshot.prev: continue
Skipped(s) == s.prev = <<>>

\* A presence check that finds every diff field missing.
NeedsComputeAlways(v) == TRUE

\* if not screenshot.png_diff_data / if not screenshot.png_diff_mask_data
NeedsCompute(v) == ~Truthy(v)

\* A write decision that does not look at data_updated.
ShouldSaveAlways(data_updated) == TRUE

\* if data_updated: the bulk save and the commit after the loop
ShouldSave(data_updated) == data_updated

NoFailure == <<0, "none">>

\* The loop of save_screenshot_diff from screenshot i on.  fail names the
\* computation that raises, <<i, "diff">> or <<i, "mask">>, if it is made.
RECURSIVE DiffLoop(_, _, _, _, _)
DiffLoop(shots, i, fail, data_updated, computed) ==
    IF i > Len(shots)
    THEN [screenshots |-> shots, data_updated |-> data_updated, raised |-> FALSE,
          computed |-> computed]
    ELSE IF Skipped(shots[i])
    THEN DiffLoop(shots, i + 1, fail, data_updated, computed)
    ELSE
      LET needDiff == NeedsCompute(shots[i].png_diff_data)
          withDiff == IF needDiff
                      THEN [shots EXCEPT ![i].png_diff_data = "diff"]
                      ELSE shots
          nDiff    == IF needDiff THEN computed + 1 ELSE computed
          needMask == NeedsCompute(shots[i].png_diff_mask_data)
          withMask == IF needMask
                      THEN [withDiff EXCEPT ![i].png_diff_mask_data = "mask"]
                      ELSE withDiff
          nMask    == IF needMask THEN nDiff + 1 ELSE nDiff
      IN  IF needDiff /\ fail = <<i, "diff">>
          THEN [screenshots |-> shots, data_updated |-> data_updated,
                raised |-> TRUE, computed |-> computed]
          ELSE IF needMask /\ fail = <<i, "mask">>
          THEN [screenshots |-> withDiff, data_updated |-> data_updated \/ needDiff,
                raised |-> TRUE, computed |-> nDiff]
          ELSE DiffLoop(withMask, i + 1, fail,
                        data_updated \/ needDiff \/ needMask, nMask)

\* The computations a pass over shots makes, each of which may raise.
FailurePoints(shots) ==
    {<<i, "diff">> : i \in {k \in DOMAIN shots : NeedsCompute(shots[k].png_diff_data)}}
        \cup {<<i, "mask">> :
                 i \in {k \in DOMAIN shots : NeedsCompute(shots[k].png_diff_mask_data)}}

save_screenshot_diff(shots, fail) == DiffLoop(shots, 1, fail, FALSE, 0)

\* The attribute values set on loaded objects that storage does not hold.
Unflushed(shots) ==
    LET ours == {shots[i].timestamp : i \in DOMAIN shots}
        mine == {DiffAttrs(shots[i]) : i \in DOMAIN shots}
        rows == {DiffAttrs(table["Screenshot"][k]) : k \in DOMAIN table["Screenshot"]}
    IN  {d \in dirty : d.timestamp \notin ours} \cup (mine \ rows)

\* db.bulk_save_objects(screenshots); db.commit()
BulkSaved(shots) ==
    [t \in Tables |->
        IF t # "Screenshot" THEN table[t]
        ELSE [k \in DOMAIN table[t] |->
                LET row == table[t][k]
                    at  == {i \in DOMAIN shots : shots[i].timestamp = row.timestamp}
                IN  IF at = {} THEN Loaded(row)
                    ELSE LET o == shots[CHOOSE i \in at : TRUE]
                         IN  [row EXCEPT !.png_diff_data = o.png_diff_data,
                                         !.png_diff_mask_data = o.png_diff_mask_data]]]

\* The diff fields that are set in a set of screenshot objects or rows.
Populated(objs) ==
    {<<o.timestamp, "png_diff_data">> : o \in {x \in objs : Truthy(x.png_diff_data)}}
        \cup {<<o.timestamp, "png_diff_mask_data">> :
                 o \in {x \in objs : Truthy(x.png_diff_mask_data)}}

Stored == Populated(Range(table["Screenshot"]))

\* The diff fields set on the objects of shots that storage does not hold.
NewlyComputed(shots) == Populated(Range(shots)) \ Stored

(***************************************************************************)
(* The operations.                                                         *)
(***************************************************************************)
NoCall == [op |-> "none", table |-> "none", recording |-> 0, fields |-> {},
           outcome |-> "none", data_updated |-> FALSE, computed |-> 0,
           wrote |-> FALSE]

\* The call _insert(data, tbl, buffer of tbl) and what it leaves behind; ts is
\* the timestamp the producer gave the record.
InsertRow(tbl, r, data, ts, commit_ok) ==
    LET res == _insert(data, tbl, buffer[tbl], commit_ok)
    IN  /\ buffer' = [buffer EXCEPT ![tbl] = res.buffer]
        /\ table' = IF res.outcome = "committed"
                    THEN Committed(tbl, res.to_insert)
                    ELSE table
        /\ dirty' = IF res.outcome = "committed" THEN {} ELSE dirty
        /\ offered' = IF res.outcome = "AssertionError"
                      THEN offered
                      ELSE [offered EXCEPT ![tbl] = Append(@, ts)]
        /\ failed' = [failed EXCEPT ![tbl] = @ \/ res.outcome = "CommitFailure"]
        /\ last' = [op |-> "insert", table |-> tbl, recording |-> r,
                    fields |-> DOMAIN data, outcome |-> res.outcome,
                    data_updated |-> FALSE, computed |-> 0,
                    wrote |-> res.outcome = "committed"]

\* The recording being recorded: the one inserted last, whose timestamp is
\* the latest.
CurrentRecording == {r \in recording_table : \A q \in recording_table : q <= r}

\* What an insert leaves alone.
InsertFrame ==
    /\ UNCHANGED <<screenshots, partial, BATCH_SIZE, SAVE_SCREENSHOT_DIFF>>
    /\ UNCHANGED <<trimVars, queryVars, appVars>>

\* insert_action_event / insert_screenshot / insert_window_event: the
\* timestamps are merged into event_data and the row goes through _insert
\* with the table's buffer.  The producer writes the events of the recording
\* being recorded, with a timestamp of its own for each event.
InsertOf(tbl, datas, oks) ==
    /\ clock <= MaxInserts
    /\ \E r \in CurrentRecording, event_data \in datas, commit_ok \in oks :
          InsertRow(tbl, r, WithTimestamps(event_data, r, clock), clock, commit_ok)
    /\ clock' = clock + 1
    /\ InsertFrame

Insert(tbl) == InsertOf(tbl, EventData(tbl), BOOLEAN)

insert_action_event == Insert("ActionEvent")

insert_screenshot == Insert("Screenshot")

\* The writers below are modelled with commits that storage accepts; the
\* failing commit is drawn for the action event and screenshot writers above.
insert_window_event == InsertOf("WindowEvent", {[title |-> "w"]}, {TRUE})

\* insert_action_event with key events the trimmer reads.
RecordedKeyEvents ==
    {KeyEvent("press", None, "ctrl"), KeyEvent("release", None, "ctrl"),
     KeyEvent("press", "c", None)}

insert_key_event == InsertOf("ActionEvent", RecordedKeyEvents, {TRUE})

\* insert_perf_stat: the record is built from the arguments.
insert_perf_stat ==
    /\ clock <= MaxInserts
    /\ \E r \in CurrentRecording, commit_ok \in {TRUE} :
          LET event_perf_stat == [recording_timestamp |-> r, event_type |-> "e",
                                  start_time |-> clock, end_time |-> clock]
          IN  InsertRow("PerformanceStat", r, event_perf_stat, clock, commit_ok)
    /\ clock' = clock + 1
    /\ InsertFrame

\* insert_memory_stat: the record is built from the arguments.
insert_memory_stat ==
    /\ clock <= MaxInserts
    /\ \E r \in CurrentRecording, commit_ok \in {TRUE} :
          LET memory_stat == [recording_timestamp |-> r, memory_usage_bytes |-> 1,
                              timestamp |-> clock]
          IN  InsertRow("MemoryStat", r, memory_stat, clock, commit_ok)
    /\ clock' = clock + 1
    /\ InsertFrame

\* The caller calls the insert whose commit failed once more, with the record
\* it passed before (the row the failed call left last in the buffer).
retry_insert ==
    /\ last.op = "insert"
    /\ last.outcome = "CommitFailure"
    /\ Len(buffer[last.table]) <= MaxInserts
    /\ LET tbl  == last.table
           kept == buffer[tbl][Len(buffer[tbl])]
       IN  \E event_data \in EventData(tbl), commit_ok \in BOOLEAN :
              LET data == WithTimestamps(event_data, last.recording, kept.timestamp)
              IN  /\ ~SchemaViolation(data, tbl)
                  /\ DbObj(data, tbl) = kept
                  /\ InsertRow(tbl, last.recording, data, kept.timestamp, commit_ok)
    /\ clock' = clock
    /\ InsertFrame

\* insert_recording: db.add, db.commit (which flushes the session), refresh.
insert_recording ==
    /\ \E ts \in {t \in RecordingTimestamps : \A q \in recording_table : q < t} :
          /\ recording_table' = recording_table \cup {ts}
          /\ last' = [op |-> "insert_recording", table |-> "Recording",
                      recording |-> ts, fields |-> {}, outcome |-> "committed",
                      data_updated |-> FALSE, computed |-> 0, wrote |-> TRUE]
    /\ table' = [table EXCEPT !["Screenshot"] = Flushed(@)]
    /\ dirty' = {}
    /\ returned' = <<>>
    /\ UNCHANGED <<buffer, screenshots, clock, offered, failed, partial, BATCH_SIZE,
                   SAVE_SCREENSHOT_DIFF>>
    /\ UNCHANGED <<trimVars, appVars>>

\* get_recording(timestamp): the first Recording row with the timestamp, or
\* None (<<>>) when there is none.
get_recording(timestamp) ==
    IF timestamp \in recording_table THEN <<timestamp>> ELSE <<>>

\* The record of a call that wrote nothing.
Call(op, tbl, ts, outcome) ==
    [op |-> op, table |-> tbl, recording |-> ts, fields |-> {}, outcome |-> outcome,
     data_updated |-> FALSE, computed |-> 0, wrote |-> FALSE]

\* What a query of rows other than screenshots leaves alone.
QueryFrame ==
    UNCHANGED <<BATCH_SIZE, SAVE_SCREENSHOT_DIFF, buffer, dirty, screenshots, clock,
                offered, failed, partial, recording_table, STOP_SEQUENCES, appVars>>

\* get_screenshots(recording), with the pass of save_screenshot_diff when
\* config.SAVE_SCREENSHOT_DIFF is set.  recording is <<>> for None, <<ts>> for
\* the Recording with timestamp ts; asked is the timestamp the caller looked up.
GetScreenshots(recording, asked) ==
    /\ IF recording = <<>>
       THEN /\ last' = Call("get_screenshots", "Screenshot", asked, "AttributeError")
            /\ UNCHANGED <<screenshots, table, dirty, partial>>
       ELSE
          LET r     == recording[1]
              shots == LinkPrev(_get("Screenshot", r))
              ours  == {shots[i].timestamp : i \in DOMAIN shots}
          IN  \E fail \in {NoFailure} \cup FailurePoints(shots) :
                IF ~SAVE_SCREENSHOT_DIFF
                THEN /\ fail = NoFailure
                     /\ screenshots' = shots
                     /\ last' = [op |-> "get_screenshots", table |-> "Screenshot",
                                 recording |-> r, fields |-> {},
                                 outcome |-> "returned", data_updated |-> FALSE,
                                 computed |-> 0, wrote |-> FALSE]
                     /\ UNCHANGED <<table, dirty, partial>>
                ELSE LET p == save_screenshot_diff(shots, fail)
                     IN  /\ screenshots' = p.screenshots
                         /\ last' = [op |-> "get_screenshots", table |-> "Screenshot",
                                     recording |-> r, fields |-> {},
                                     outcome |-> IF p.raised
                                                 THEN "DiffComputationFailure"
                                                 ELSE "returned",
                                     data_updated |-> p.data_updated,
                                     computed |-> p.computed,
                                     wrote |-> ~p.raised /\ ShouldSave(p.data_updated)]
                         /\ IF p.raised
                            THEN /\ dirty' = Unflushed(p.screenshots)
                                 /\ partial' = partial \cup NewlyComputed(p.screenshots)
                                 /\ table' = table
                            ELSE IF ShouldSave(p.data_updated)
                            THEN /\ dirty' = {}
                                 /\ partial' = {x \in partial : x[1] \notin ours}
                                 /\ table' = BulkSaved(p.screenshots)
                            ELSE UNCHANGED <<table, dirty, partial>>
    /\ UNCHANGED <<buffer, clock, offered, failed, BATCH_SIZE, SAVE_SCREENSHOT_DIFF>>
    /\ UNCHANGED <<trimVars, queryVars, appVars>>

\* get_screenshots called with the Recording the caller holds.
get_screenshots == \E r \in recording_table : GetScreenshots(<<r>>, r)

\* A get_action_events that deletes from storage the rows it trimmed.
StorageAfterTrimDeleting(evs, trimmed) ==
    LET Kept(row) == \A i \in (Len(trimmed) + 1)..Len(evs) : evs[i] # row
    IN  [table EXCEPT !["ActionEvent"] = SelectSeq(@, Kept)]

\* Storage after get_action_events fetched evs and trimmed the list to
\* trimmed: the function queries and pops from the list, and issues no write.
StorageAfterTrim(evs, trimmed) == table

\* get_action_events(recording): the assertion, the fetch, the trimming of the
\* fetched list in place.
GetActionEvents(recording, asked) ==
    /\ IF recording = <<>>
       THEN /\ last' = Call("get_action_events", "ActionEvent", asked, "AssertionError")
            /\ returned' = <<>>
            /\ UNCHANGED <<table, fetched, action_events, trim>>
       ELSE LET evs == _get("ActionEvent", recording[1])
                f   == filter_stop_sequences(evs, STOP_SEQUENCES)
            IN  /\ fetched' = evs
                /\ action_events' = f.events
                /\ trim' = [pc |-> f.pc, ctrl_c |-> f.ctrl_c,
                            sequence_to_remove |-> f.sequence_to_remove,
                            num_to_remove |-> f.num_to_remove]
                /\ returned' = IF f.pc = "returned" THEN f.events ELSE <<>>
                /\ table' = StorageAfterTrim(evs, f.events)
                /\ last' = Call("get_action_events", "ActionEvent", asked,
                                IF f.pc = "returned" THEN "returned" ELSE "IndexError")
    /\ QueryFrame

\* get_window_events(recording): _get(WindowEvent, recording.timestamp)
GetWindowEvents(recording, asked) ==
    /\ IF recording = <<>>
       THEN /\ last' = Call("get_window_events", "WindowEvent", asked, "AttributeError")
            /\ returned' = <<>>
       ELSE /\ last' = Call("get_window_events", "WindowEvent", asked, "returned")
            /\ returned' = _get("WindowEvent", recording[1])
    /\ UNCHANGED <<table, trimVars>>
    /\ QueryFrame

RECURSIVE OrderBy(_, _)
OrderBy(rows, col) ==
    IF rows = <<>> THEN <<>>
    ELSE LET m == CHOOSE i \in DOMAIN rows :
                      \A k \in DOMAIN rows :
                          \/ rows[i][col] < rows[k][col]
                          \/ (rows[i][col] = rows[k][col] /\ i <= k)
             rest == [k \in 1..(Len(rows) - 1) |-> IF k < m THEN rows[k] ELSE rows[k + 1]]
         IN  <<rows[m]>> \o OrderBy(rest, col)

\* The query of get_perf_stats / get_memory_stats: filter by the recording
\* timestamp given, order by the column col.
StatsOf(tbl, recording_timestamp, col) ==
    LET OfRecording(row) == row.recording_timestamp = recording_timestamp
    IN  OrderBy(SelectSeq(table[tbl], OfRecording), col)

\* get_perf_stats(recording_timestamp)
get_perf_stats ==
    /\ \E recording_timestamp \in RecordingTimestamps :
          /\ returned' = StatsOf("PerformanceStat", recording_timestamp, "start_time")
          /\ last' = Call("get_perf_stats", "PerformanceStat", recording_timestamp,
                          "returned")
    /\ UNCHANGED <<table, trimVars>>
    /\ QueryFrame

\* get_memory_stats(recording_timestamp)
get_memory_stats ==
    /\ \E recording_timestamp \in RecordingTimestamps :
          /\ returned' = StatsOf("MemoryStat", recording_timestamp, "timestamp")
          /\ last' = Call("get_memory_stats", "MemoryStat", recording_timestamp,
                          "returned")
    /\ UNCHANGED <<table, trimVars>>
    /\ QueryFrame

\* The accessors that take a Recording, called with what get_recording gave
\* for a timestamp.
get_action_events ==
    \E ts \in RecordingTimestamps : GetActionEvents(get_recording(ts), ts)

get_window_events ==
    \E ts \in RecordingTimestamps : GetWindowEvents(get_recording(ts), ts)

get_screenshots_of_recording ==
    \E ts \in RecordingTimestamps : GetScreenshots(get_recording(ts), ts)

InitQuery ==
    /\ recording_table = Recordings
    /\ returned = <<>>

InitWriter ==
    /\ buffer = [t \in Tables |-> <<>>]
    /\ table = [t \in Tables |-> <<>>]
    /\ dirty = {}
    /\ screenshots = <<>>
    /\ clock = 1
    /\ offered = [t \in Tables |-> <<>>]
    /\ failed = [t \in Tables |-> FALSE]
    /\ partial = {}
    /\ last = NoCall

(***************************************************************************)
(* The record button of the front end (openadapt/app/cards.py, main.py).   *)
(* The prompt is a modal dialog: while it is open the events go to it, and *)
(* the record button is clicked only when no prompt is open.               *)
(***************************************************************************)
Names == {"test", "demo"}

\* The module cards binds PROC and never binds the name process.
process == "unbound"

InitApp ==
    /\ PROC = <<>>
    /\ record_button = [name |-> "radio_button_checked",
                        listeners |-> <<"recording_prompt">>]
    /\ dialog = "none"
    /\ result = <<>>
    /\ running = {}
    /\ sigints = {}
    /\ notifications = <<>>
    /\ errors = <<>>
    /\ ui_log = <<>>

\* What the front end leaves alone.
AppFrame == UNCHANGED <<writerVars, trimVars, queryVars>>

\* The front-end state a click listener works on.
AppState ==
    [PROC |-> PROC, record_button |-> record_button, dialog |-> dialog,
     result |-> result, running |-> running, sigints |-> sigints,
     notifications |-> notifications, errors |-> errors]

\* recording_prompt(options, record_button): a new prompt when PROC is None
\* (the nested functions are defined in either case).
recording_prompt(st) ==
    IF st.PROC = <<>>
    THEN [st EXCEPT !.dialog = "open", !.result = <<>>]
    ELSE st

\* terminate(): the function declares "global process" and reads process.
terminate(st) ==
    IF process = "unbound"
    THEN [st EXCEPT !.errors = Append(@, "NameError")]
    ELSE [st EXCEPT !.sigints = @ \cup {process},
                    !.running = @ \ {process},
                    !.notifications = Append(@, "Stopped recording"),
                    !.record_button =
                        [name |-> "radio_button_checked",
                         listeners |-> Append(st.record_button.listeners,
                                              "recording_prompt")]]

\* A click runs every listener registered on the button, in the order they
\* were registered; a listener that raises does not stop the others.
RECURSIVE RunListeners(_, _)
RunListeners(listeners, st) ==
    IF listeners = <<>> THEN st
    ELSE LET next == IF Head(listeners) = "terminate"
                     THEN terminate(st)
                     ELSE recording_prompt(st)
         IN  RunListeners(Tail(listeners), next)

\* begin(): reads the name, notifies, spawns the recorder, turns the button
\* into the stop button; returns the Popen object.
begin(st, pid) ==
    IF st.result = <<>>
    THEN [st EXCEPT !.errors = Append(@, "AttributeError")]
    ELSE [st EXCEPT !.notifications = Append(@, "Recording " \o st.result[1]),
                    !.running = @ \cup {pid},
                    !.record_button =
                        [name |-> "stop",
                         listeners |-> Append(st.record_button.listeners, "terminate")],
                    !.PROC = <<pid>>]

\* on_record(): dialog.close(); PROC = begin()
on_record(st, pid) == begin([st EXCEPT !.dialog = "closed"], pid)

Handled(st, event) ==
    /\ PROC' = st.PROC
    /\ record_button' = st.record_button
    /\ dialog' = st.dialog
    /\ result' = st.result
    /\ running' = st.running
    /\ sigints' = st.sigints
    /\ notifications' = st.notifications
    /\ errors' = st.errors
    /\ ui_log' = Append(ui_log, event)
    /\ AppFrame

\* A click on the record icon.
ClickRecordButton ==
    /\ Len(ui_log) < MaxUiEvents
    /\ dialog # "open"
    /\ Handled(RunListeners(record_button.listeners, AppState), "click")

\* The user types a name: on_change sets the label to the change event.
TypeName ==
    /\ Len(ui_log) < MaxUiEvents
    /\ dialog = "open"
    /\ \E n \in Names : Handled([AppState EXCEPT !.result = <<n>>], "type")

\* The prompt's Close button.
ClickClose ==
    /\ Len(ui_log) < MaxUiEvents
    /\ dialog = "open"
    /\ Handled([AppState EXCEPT !.dialog = "closed"], "close")

\* The prompt's Enter button.
ClickEnter ==
    /\ Len(ui_log) < MaxUiEvents
    /\ dialog = "open"
    /\ Handled(on_record(AppState, Len(ui_log) + 1), "enter")

\* The recorder ends by itself (CTRL + C in its terminal window).
RecorderExits ==
    /\ \E pid \in running : running' = running \ {pid}
    /\ UNCHANGED <<PROC, record_button, dialog, result, sigints, notifications,
                   errors, ui_log>>
    /\ AppFrame

NextApp ==
    \/ ClickRecordButton
    \/ TypeName
    \/ ClickClose
    \/ ClickEnter
    \/ RecorderExits

(***************************************************************************)
(* The trimmer on every list and configuration within the bounds.          *)
(***************************************************************************)
TrimPending == [pc |-> "fetched", ctrl_c |-> FALSE,
                sequence_to_remove |-> -1, num_to_remove |-> 0]

InitTrim ==
    /\ fetched \in SeqsUpTo(ActionEvents, MaxEvents)
    /\ action_events = fetched
    /\ STOP_SEQUENCES \in StopSequenceConfigs
    /\ trim = TrimPending
    /\ BATCH_SIZE = 1
    /\ SAVE_SCREENSHOT_DIFF = TRUE
    /\ InitWriter
    /\ InitQuery
    /\ InitApp

FilterStopSequences ==
    /\ trim.pc = "fetched"
    /\ LET r == filter_stop_sequences(action_events, STOP_SEQUENCES)
       IN  /\ action_events' = r.events
           /\ trim' = [pc |-> r.pc, ctrl_c |-> r.ctrl_c,
                       sequence_to_remove |-> r.sequence_to_remove,
                       num_to_remove |-> r.num_to_remove]
    /\ UNCHANGED <<fetched, STOP_SEQUENCES>>
    /\ UNCHANGED <<writerVars, queryVars, appVars>>

NextTrim == FilterStopSequences

SpecTrim == InitTrim /\ [][NextTrim]_vars

(***************************************************************************)
(* The writer and the diff chain on the shared session, for every batch    *)
(* threshold within the bounds.                                            *)
(***************************************************************************)
Init ==
    /\ BATCH_SIZE \in 1..MaxBatchSize
    /\ SAVE_SCREENSHOT_DIFF \in BOOLEAN
    /\ InitWriter
    /\ InitQuery
    /\ InitApp
    /\ fetched = <<>>
    /\ action_events = <<>>
    /\ STOP_SEQUENCES = <<>>
    /\ trim = TrimPending

Next ==
    \/ insert_action_event
    \/ insert_screenshot
    \/ get_screenshots

Spec == Init /\ [][Next]_vars

(***************************************************************************)
(* The accessors, on recordings that exist and on recordings that do not.  *)
(***************************************************************************)
InitQueries ==
    /\ BATCH_SIZE = 1
    /\ SAVE_SCREENSHOT_DIFF = FALSE
    /\ InitWriter
    /\ recording_table = {}
    /\ returned = <<>>
    /\ InitApp
    /\ fetched = <<>>
    /\ action_events = <<>>
    /\ STOP_SEQUENCES = <<>>
    /\ trim = TrimPending

NextQuery ==
    \/ insert_recording
    \/ insert_window_event
    \/ insert_perf_stat
    \/ insert_memory_stat
    \/ get_action_events
    \/ get_screenshots_of_recording
    \/ get_window_events
    \/ get_perf_stats
    \/ get_memory_stats

SpecQuery == InitQueries /\ [][NextQuery]_vars

(***************************************************************************)
(* get_action_events on stored key events of one or two recordings.        *)
(***************************************************************************)
FetchConfigs == {<<>>} \cup {<<s>> : s \in StopSequences}

InitFetch ==
    /\ BATCH_SIZE = 1
    /\ SAVE_SCREENSHOT_DIFF = FALSE
    /\ InitWriter
    /\ InitQuery
    /\ InitApp
    /\ fetched = <<>>
    /\ action_events = <<>>
    /\ STOP_SEQUENCES \in FetchConfigs
    /\ trim = TrimPending

NextFetch ==
    \/ insert_recording
    \/ insert_key_event
    \/ get_action_events

SpecFetch == InitFetch /\ [][NextFetch]_vars

(***************************************************************************)
(* The writer with a caller that retries the insert whose commit failed.   *)
(***************************************************************************)
NextRetry ==
    \/ insert_action_event
    \/ retry_insert

SpecRetry == Init /\ [][NextRetry]_vars

(***************************************************************************)
(* The record button, from the start of the front end.                     *)
(***************************************************************************)
InitFrontEnd ==
    /\ BATCH_SIZE = 1
    /\ SAVE_SCREENSHOT_DIFF = TRUE
    /\ InitWriter
    /\ InitQuery
    /\ InitApp
    /\ fetched = <<>>
    /\ action_events = <<>>
    /\ STOP_SEQUENCES = <<>>
    /\ trim = TrimPending

SpecApp == InitFrontEnd /\ [][NextApp]_vars

(***************************************************************************)
(* Properties of the trimmer.                                              *)
(***************************************************************************)
Trimmed == trim.pc # "fetched"

IsPrefix(s, t) == Len(s) <= Len(t) /\ s = SubSeq(t, 1, Len(s))

IsPress(e) == e.name = "press"

Matches(e, tok) == e.canonical_key_char = tok \/ e.canonical_key_name = tok

\* The Ctrl+C pattern at the tail of evs, as the specification words it.
CtrlCTail(evs) ==
    /\ Len(evs) >= 2
    /\ evs[Len(evs)].canonical_key_char = "c"
    /\ evs[Len(evs) - 1].canonical_key_name = "ctrl"

\* The tail of evs from position k on holds the tokens of seq as press events
\* in sequence order, starting with the press of the first token, with only
\* release events of seq's tokens in between.
TailFromMatches(evs, seq, k) ==
    LET tail    == SubSeq(evs, k, Len(evs))
        presses == SelectSeq(tail, IsPress)
    IN  /\ IsPress(tail[1])
        /\ Len(presses) = Len(seq)
        /\ \A m \in 1..Len(seq) : Matches(presses[m], seq[m])
        /\ \A m \in 1..Len(tail) :
              \/ IsPress(tail[m])
              \/ /\ tail[m].name = "release"
                 /\ \E t \in Range(seq) : Matches(tail[m], t)

TailMatches(evs, seq) == \E k \in 1..Len(evs) : TailFromMatches(evs, seq, k)

\* The events one sequence's backward scan consumes, counted from zero.
ConsumedBy(evs, seq) == ScanFrom(evs, seq, Len(evs), Len(seq) - 1, 0).num

\* C2: when a configured sequence's tokens stand at the tail of the list as
\* press events in sequence order (only releases of its tokens in between),
\* that sequence is counted as matched and the list is trimmed, whatever
\* precedes that tail, and the sequence applied is the first configured one
\* that matches.
C2_TailMatchIsTrimmed ==
    (Trimmed /\ ~CtrlCTail(fetched)) =>
        \A i \in DOMAIN STOP_SEQUENCES :
            (/\ TailMatches(fetched, STOP_SEQUENCES[i])
             /\ \A h \in 1..(i - 1) : ~TailMatches(fetched, STOP_SEQUENCES[h]))
            => /\ trim.sequence_to_remove = i - 1
               /\ Len(action_events) < Len(fetched)

\* C3: on a full match of a configured sequence, the number of events removed
\* from the end is exactly the number that sequence's own backward scan
\* consumed, also when earlier sequences were tried and did not match.
C3_RemovesExactlyConsumed ==
    (Trimmed /\ trim.sequence_to_remove # -1) =>
        /\ IsPrefix(action_events, fetched)
        /\ Len(fetched) - Len(action_events)
              = ConsumedBy(fetched, STOP_SEQUENCES[trim.sequence_to_remove + 1])

\* C4: for every list and configuration the call completes without raising
\* and leaves a prefix of the list it was given.
C4_ReturnsPrefix ==
    Trimmed => (trim.pc = "returned" /\ IsPrefix(action_events, fetched))

\* C5: when the last event's character is "c" and the one before's key name
\* is "ctrl", exactly those two events are removed and no configured sequence
\* is consulted.
C5_CtrlCRemovesTwo ==
    (Trimmed /\ CtrlCTail(fetched)) =>
        /\ trim.pc = "returned"
        /\ action_events = SubSeq(fetched, 1, Len(fetched) - 2)
        /\ trim.sequence_to_remove = -1
        /\ trim.num_to_remove = 0

\* C5's case: the Ctrl+C branch ran on a list on which the configured
\* sequences alone would have matched and removed another number of events.
C5_Witness ==
    /\ trim.pc = "returned"
    /\ trim.ctrl_c
    /\ LET s == ScanSequences(fetched, STOP_SEQUENCES, 1, 0)
       IN  ~s.raised /\ s.sequence_to_remove # -1 /\ s.num_to_remove # 2

\* C6: when the tail is neither the Ctrl+C pattern nor a match of any
\* configured sequence, the list is left as it was, also when sequences
\* matched in part.
C6_NoMatchUnchanged ==
    (/\ Trimmed
     /\ ~CtrlCTail(fetched)
     /\ \A i \in DOMAIN STOP_SEQUENCES : ~TailMatches(fetched, STOP_SEQUENCES[i]))
    => (trim.pc = "returned" /\ action_events = fetched)

\* C6's case: no match, after some sequence consumed events in part.
C6_Witness ==
    /\ trim.pc = "returned"
    /\ ~CtrlCTail(fetched)
    /\ \A i \in DOMAIN STOP_SEQUENCES : ~TailMatches(fetched, STOP_SEQUENCES[i])
    /\ Len(STOP_SEQUENCES) = 2
    /\ trim.num_to_remove > 0
    /\ action_events = fetched

(***************************************************************************)
(* Properties of the writer and the diff chain.                            *)
(***************************************************************************)
Timestamps(rows) == [i \in DOMAIN rows |-> rows[i].timestamp]

InsertStep == clock' # clock

\* C1: for every threshold T >= 1 and a buffer whose commits all succeeded:
\* after fewer than T buffered inserts no row is in storage and the buffer
\* holds the inserted rows; at the T-th insert all T rows are in storage and
\* the buffer is empty; between calls the buffer is shorter than T.
C1_BatchThreshold ==
    \A t \in Tables :
        ~failed[t] =>
            LET n == Len(offered[t])
            IN  /\ Len(buffer[t]) < BATCH_SIZE
                /\ Len(buffer[t]) = n % BATCH_SIZE
                /\ Len(table[t]) = n - (n % BATCH_SIZE)
                /\ Timestamps(table[t]) \o Timestamps(buffer[t]) = offered[t]

\* C1's case: a threshold above one, one full batch in storage and a row of
\* the next batch waiting in the buffer.
C1_Witness ==
    \E t \in Tables :
        /\ ~failed[t]
        /\ BATCH_SIZE >= 2
        /\ Len(table[t]) = BATCH_SIZE
        /\ Len(buffer[t]) = 1

\* C7 as claimed: after a completed pass the first screenshot of the recording
\* has no diff image and no diff mask, and every other screenshot has both.
C7_FirstScreenshotSkipped ==
    (/\ last.op = "get_screenshots"
     /\ last.outcome = "returned"
     /\ SAVE_SCREENSHOT_DIFF
     /\ screenshots # <<>>)
    => /\ ~Truthy(screenshots[1].png_diff_data)
       /\ ~Truthy(screenshots[1].png_diff_mask_data)
       /\ \A i \in 2..Len(screenshots) :
             /\ Truthy(screenshots[i].png_diff_data)
             /\ Truthy(screenshots[i].png_diff_mask_data)

\* C7 as amended: the pass skips only a screenshot without prev; from
\* get_screenshots the first screenshot's prev is the screenshot itself and
\* none is skipped, so after a completed pass every screenshot of the
\* recording, the first included, has both diff fields, in the list returned
\* and in storage.
C7_EveryScreenshotDiffed ==
    (/\ last.op = "get_screenshots"
     /\ last.outcome = "returned"
     /\ SAVE_SCREENSHOT_DIFF)
    => /\ \A i \in DOMAIN screenshots :
             /\ screenshots[i].prev
                   = <<screenshots[IF i = 1 THEN 1 ELSE i - 1].timestamp>>
             /\ Truthy(screenshots[i].png_diff_data)
             /\ Truthy(screenshots[i].png_diff_mask_data)
       /\ \A k \in DOMAIN table["Screenshot"] :
             table["Screenshot"][k].recording_timestamp = last.recording
             => /\ Truthy(table["Screenshot"][k].png_diff_data)
                /\ Truthy(table["Screenshot"][k].png_diff_mask_data)
       /\ Len(screenshots)
             = Cardinality({k \in DOMAIN table["Screenshot"] :
                   table["Screenshot"][k].recording_timestamp = last.recording})

\* C7's case: a completed pass over two screenshots or more.
C7_Witness ==
    /\ last.op = "get_screenshots"
    /\ last.outcome = "returned"
    /\ SAVE_SCREENSHOT_DIFF
    /\ last.computed > 0
    /\ Len(screenshots) >= 2

\* C8: the diff fields a failed pass left computed in memory are not seen in
\* storage afterwards, whatever is done later on the same session (until a
\* later pass over those screenshots completes).
C8_NoPartialPersistence == partial \cap Stored = {}

\* C9: when the commit of an insert that reached the threshold fails, the
\* buffer holds what it held before and the row just appended, and storage is
\* as before; a buffer gets shorter only in an insert that committed.
C9_BufferKeptOnCommitFailure ==
    [][ /\ (InsertStep /\ last'.outcome = "CommitFailure") =>
              LET t == last'.table
              IN  /\ Len(buffer'[t]) = Len(buffer[t]) + 1
                  /\ SubSeq(buffer'[t], 1, Len(buffer[t])) = buffer[t]
                  /\ buffer'[t][Len(buffer'[t])].timestamp = clock
                  /\ Len(buffer'[t]) >= BATCH_SIZE
                  /\ table' = table
        /\ \A t \in Tables :
              Len(buffer'[t]) < Len(buffer[t]) =>
                  /\ InsertStep
                  /\ last'.outcome = "committed"
                  /\ last'.table = t
                  /\ buffer'[t] = <<>>
                  /\ Timestamps(table'[t])
                        = Timestamps(table[t]) \o Timestamps(buffer[t]) \o <<clock>>
      ]_vars

\* C9's case: a failed commit with two rows or more kept in the buffer.
C9_Witness ==
    /\ last.op = "insert"
    /\ last.outcome = "CommitFailure"
    /\ Len(buffer[last.table]) >= 2

\* C10: an insert of a record with a field the table does not declare fails
\* before anything else: nothing is appended, nothing committed, buffers and
\* storage are as before the call.
C10_UnknownFieldRejected ==
    [][ (InsertStep /\ ~(last'.fields \subseteq Columns(last'.table))) =>
            /\ last'.outcome = "AssertionError"
            /\ ~last'.wrote
            /\ buffer' = buffer
            /\ table' = table
            /\ dirty' = dirty
      ]_vars

\* C10's case: a rejected insert on a buffer that holds a row.
C10_Witness ==
    /\ last.op = "insert"
    /\ last.outcome = "AssertionError"
    /\ buffer[last.table] # <<>>
    /\ table[last.table] # <<>>

\* A step of get_screenshots (an insert advances the clock).
GetScreenshotsStep == last'.op = "get_screenshots" /\ clock' = clock

\* C11: a pass computes a diff field only where none is populated: the fields
\* populated before a pass keep being populated, the computations of a pass
\* are exactly the fields it newly populates, and a pass that follows a
\* completed pass over the same list computes nothing and writes nothing.
C11_PopulatedNeverRecomputed ==
    [][ (GetScreenshotsStep /\ SAVE_SCREENSHOT_DIFF) =>
            LET before == _get("Screenshot", last'.recording)
                had    == Populated(Range(before))
                has    == Populated(Range(screenshots'))
            IN  /\ had \subseteq has
                /\ last'.computed = Cardinality(has \ had)
                /\ Stored \subseteq Stored'
                /\ (/\ last.op = "get_screenshots"
                    /\ last.outcome = "returned"
                    /\ last.recording = last'.recording)
                   => /\ last'.outcome = "returned"
                      /\ last'.computed = 0
                      /\ ~last'.wrote
                      /\ table' = table
      ]_vars

\* C11's case: a completed pass over two screenshots or more that found every
\* diff field populated.
C11_Witness ==
    /\ last.op = "get_screenshots"
    /\ last.outcome = "returned"
    /\ SAVE_SCREENSHOT_DIFF
    /\ Len(screenshots) >= 2
    /\ last.computed = 0
    /\ ~last.wrote

\* C12: the list get_screenshots builds holds the recording's screenshots in
\* ascending timestamp order, the first one's prev is the first one itself,
\* every other one's prev is the one before it, and no prev is None.
C12_PrevLinks ==
    (last.op = "get_screenshots" /\ screenshots # <<>>) =>
        /\ screenshots[1].prev = <<screenshots[1].timestamp>>
        /\ \A i \in 2..Len(screenshots) :
              /\ screenshots[i].prev = <<screenshots[i - 1].timestamp>>
              /\ screenshots[i - 1].timestamp < screenshots[i].timestamp
        /\ \A i \in DOMAIN screenshots : screenshots[i].prev # <<>>
        /\ {screenshots[i].timestamp : i \in DOMAIN screenshots}
              = {r.timestamp : r \in {x \in Range(table["Screenshot"]) :
                                         x.recording_timestamp = last.recording}}

\* C12's case: a list of three screenshots or more, built without a diff pass.
C12_Witness ==
    /\ last.op = "get_screenshots"
    /\ ~SAVE_SCREENSHOT_DIFF
    /\ Len(screenshots) >= 3

\* C14: a pass writes to storage exactly when it ran to its end and newly
\* populated a diff field; the write then covers every screenshot of the list
\* and leaves nothing unflushed, and a pass that does not write leaves storage
\* as it was (no write is made while the iteration is under way).
C14_OneWriteAfterPass ==
    [][ (GetScreenshotsStep /\ SAVE_SCREENSHOT_DIFF) =>
            LET before == _get("Screenshot", last'.recording)
                newly  == Populated(Range(screenshots')) \ Populated(Range(before))
            IN  /\ last'.wrote <=> (last'.outcome = "returned" /\ newly # {})
                /\ last'.wrote =>
                      /\ \A i \in DOMAIN screenshots' :
                            \E k \in DOMAIN table'["Screenshot"] :
                                DiffAttrs(table'["Screenshot"][k])
                                    = DiffAttrs(screenshots'[i])
                      /\ dirty' = {}
                /\ ~last'.wrote => table' = table
      ]_vars

\* C14's case: a pass over two screenshots or more that wrote the whole list
\* after it newly populated the fields of some of them only.
C14_Witness ==
    /\ last.op = "get_screenshots"
    /\ last.wrote
    /\ Len(screenshots) >= 2
    /\ last.computed > 0
    /\ last.computed < 2 * Len(screenshots)

\* C16: for each table the rows in storage are, in this order, the rows first
\* offered, and the rows not yet in storage wait in the buffer in the order
\* offered, whether or not a commit failed in between.
C16_VisibleInOfferOrder ==
    \A t \in Tables :
        /\ IsPrefix(Timestamps(table[t]), offered[t])
        /\ Timestamps(table[t]) \o Timestamps(buffer[t]) = offered[t]

\* C16's case: two batches of two rows each in storage.
C16_Witness ==
    \E t \in Tables :
        /\ BATCH_SIZE = 2
        /\ Len(table[t]) = 4

\* C15: a configured sequence with more tokens than the list has events is
\* never the sequence applied; when every configured sequence is longer than
\* the list, or none is configured, the configured path leaves the list as it
\* was (the Ctrl+C check aside).
C15_LongSequenceNeverMatches ==
    (Trimmed /\ ~CtrlCTail(fetched)) =>
        /\ trim.sequence_to_remove # -1 =>
              Len(STOP_SEQUENCES[trim.sequence_to_remove + 1]) <= Len(fetched)
        /\ (\A i \in DOMAIN STOP_SEQUENCES : Len(STOP_SEQUENCES[i]) > Len(fetched)) =>
              /\ trim.pc = "returned"
              /\ trim.sequence_to_remove = -1
              /\ action_events = fetched
        /\ STOP_SEQUENCES = <<>> => trim.num_to_remove = 0

\* C15's case: every configured sequence is longer than the list, and one of
\* them matched the list's events as far as they go.
C15_Witness ==
    /\ trim.pc = "returned"
    /\ ~CtrlCTail(fetched)
    /\ fetched # <<>>
    /\ STOP_SEQUENCES # <<>>
    /\ \A i \in DOMAIN STOP_SEQUENCES : Len(STOP_SEQUENCES[i]) > Len(fetched)
    /\ trim.num_to_remove > 0

(***************************************************************************)
(* Properties of the accessors.                                            *)
(***************************************************************************)
Accessors == {"get_action_events", "get_screenshots", "get_window_events",
              "get_perf_stats", "get_memory_stats"}

\* C13: an accessor asked for a recording (or a recording timestamp) that does
\* not exist ends with an error, whichever of the five accessors it is; it
\* does not return a list.
C13_MissingRecordingFailsFast ==
    (last.op \in Accessors /\ last.recording \notin recording_table) =>
        last.outcome \notin {"returned", "none"}

\* A step of get_action_events past its assertion.
GetActionEventsStep ==
    /\ last'.op = "get_action_events"
    /\ last'.outcome # "AssertionError"
    /\ clock' = clock

\* What _get(ActionEvent, recording.timestamp) gives after the step.
FetchedAgain ==
    LET OfRecording(row) == row.recording_timestamp = last'.recording
    IN  OrderByTimestamp(SelectSeq(table'["ActionEvent"], OfRecording))

\* C17: get_action_events leaves storage, the buffers and the session as they
\* were: the rows of the recording are after the call the rows that were
\* fetched, and fetching again gives the same trimmed list (or fails the same).
C17_TrimLeavesStorage ==
    [][ GetActionEventsStep =>
            /\ table' = table
            /\ buffer' = buffer
            /\ dirty' = dirty
            /\ fetched' = _get("ActionEvent", last'.recording)
            /\ FetchedAgain = fetched'
            /\ LET again == filter_stop_sequences(FetchedAgain, STOP_SEQUENCES')
               IN  /\ again.events = action_events'
                   /\ again.pc = trim'.pc
      ]_vars

\* C17's case: a fetch that trimmed the list of one recording while storage
\* holds events of another recording too.
C17_Witness ==
    /\ last.op = "get_action_events"
    /\ last.outcome = "returned"
    /\ Len(action_events) < Len(fetched)
    /\ \E k \in DOMAIN table["ActionEvent"] :
          table["ActionEvent"][k].recording_timestamp # last.recording

\* C18: with a caller that calls the failed insert again with the same record,
\* no record is in storage twice, and when the buffer is empty every record
\* offered is in storage.
C18_EveryRecordStoredOnce ==
    \A t \in Tables :
        /\ \A i, k \in DOMAIN table[t] : i # k => table[t][i] # table[t][k]
        /\ buffer[t] = <<>> => Range(offered[t]) \subseteq Range(Timestamps(table[t]))

(***************************************************************************)
(* Properties of the record button.                                        *)
(***************************************************************************)
ClickStep == ui_log' = Append(ui_log, "click")

\* C19: a click on the record button while a recorder is recorded as running
\* sends SIGINT to that recorder and resets the running-process state to None
\* (so that the next click opens the prompt), and a recorder is started only
\* while none is recorded as running.
C19_StopResetsRunningProcess ==
    [][ /\ (ClickStep /\ PROC # <<>>) =>
              /\ PROC[1] \in sigints'
              /\ PROC' = <<>>
        /\ (PROC' # PROC /\ PROC' # <<>>) => PROC = <<>>
      ]_vars

====
